---- MODULE Spec2Model ----
(***************************************************************************)
(* VariantWorks label loader (claragenomics/variantworks/label_loader.py)  *)
(* and the pileup insertion tokenizer exercised by                         *)
(* tests/test_summary_encoder.py.                                          *)
(*                                                                         *)
(* Spec   : construction of a VCFLabelLoader from a list of                *)
(*          (vcf, bam, is_fp) triples, followed by iteration over it.      *)
(* SpecFI : find_insertions applied to pileup column strings.              *)
(***************************************************************************)
EXTENDS Integers, Sequences, FiniteSets, TLC

\* ------------------------------------------------------------------ bounds
\* Longest vcf_bam_list given to the constructor.
MaxTriples == 2
\* Records read from all VCF readers during one construction.
MaxReads == 3
\* Largest number of samples a VCF header declares.
MaxSamples == 2
\* Iterators obtained from one loader.
MaxIters == 2
\* Tokens of a generated pileup column string.
MaxTokens == 3

VARIABLES
    pc,          \* where the constructor is: "loop", "parse", "ready", "failed"
    ntriples,    \* elements of vcf_bam_list taken by the for loop of __init__
    elem,        \* the current element of vcf_bam_list
    reader,      \* the vcf.Reader of the current element, once opened
    record,      \* the record of the current iteration of the loop of _parse_vcf
    nread,       \* records read so far, over all readers
    nread_elem,  \* history: records read so far from the current reader
    labels,      \* self._labels
    emitted_fp,  \* history: for each label, the is_fp of the triple that emitted it
    passed,      \* history: <<vcf, POS>> of the records read that pass the filters
    error,       \* the exception that left the constructor
    iters,       \* the LabelLoaderIterator objects obtained from the loader
    result,      \* what the last __next__ call returned or raised
    base_pileup, \* find_insertions: the argument
    tokens,      \* history: the tokens base_pileup was written from
    fi_out       \* find_insertions: the value returned

loader_vars == <<pc, ntriples, elem, reader, record, nread, nread_elem, labels, emitted_fp, passed,
                 error,
                 iters, result>>
fi_vars == <<base_pileup, tokens, fi_out>>
vars == <<pc, ntriples, elem, reader, record, nread, nread_elem, labels, emitted_fp, passed,
                 error,
          iters, result, base_pileup, tokens, fi_out>>

\* ------------------------------------------------------------- the inputs
\* Python's None, where a string is expected.
None == "<None>"

NoElem == [none |-> TRUE]
NoRecord == [none |-> TRUE]
NoReader == [open |-> FALSE]
OpenReader(n) == [open |-> TRUE, samples |-> n]
NoError == [type |-> "none", msg |-> ""]
NoResult == [kind |-> "none"]

\* A Python value given as is_fp, with its type: a bool, or an int.
PyBool(b) == [t |-> "bool", v |-> b]
PyInt(i) == [t |-> "int", v |-> i]
\* type(x) is bool
IsBool(x) == x.t = "bool"

\* VcfBamPaths(vcf, bam, is_fp): the elements a vcf_bam_list is made of.
Triples ==
    << [vcf |-> "tp.vcf.gz", bam |-> "tp.bam", is_fp |-> PyBool(FALSE)],
       [vcf |-> "fp.vcf.gz", bam |-> "fp.bam", is_fp |-> PyBool(TRUE)],
       [vcf |-> "raw.vcf",   bam |-> "raw.bam", is_fp |-> PyBool(FALSE)],
       [vcf |-> "nb.vcf.gz", bam |-> None,      is_fp |-> PyBool(FALSE)],
       [vcf |-> "ni.vcf.gz", bam |-> "ni.bam",  is_fp |-> PyInt(1)] >>

\* The classes of record the loader tells apart: REF/ALT shape ...
Shapes == {"snp", "snp_multi", "ins", "del", "sv"}
\* ... and the genotype call of the file's one sample.
Gts == {"uncalled", "homref", "het", "homalt"}

ShapeREF(s) == CASE s = "snp" -> "A" [] s = "snp_multi" -> "C" [] s = "ins" -> "G"
                 [] s = "del" -> "GTC" [] s = "sv" -> "T"
ShapeALT(s) == CASE s = "snp" -> << [sequence |-> "G"] >>
                 [] s = "snp_multi" -> << [sequence |-> "T"], [sequence |-> "G"] >>
                 [] s = "ins" -> << [sequence |-> "GTA"] >>
                 [] s = "del" -> << [sequence |-> "G"] >>
                 [] s = "sv"  -> << [sequence |-> "<DUP>"] >>
ShapePOS(s) == CASE s = "snp" -> 100 [] s = "snp_multi" -> 200 [] s = "ins" -> 300
                 [] s = "del" -> 400 [] s = "sv" -> 500
GtPOS(g) == CASE g = "uncalled" -> 1 [] g = "homref" -> 2 [] g = "het" -> 3 [] g = "homalt" -> 4
GtID(g) == IF g = "het" THEN "rs3" ELSE None
GtQUAL(g) == CASE g = "uncalled" -> 0 [] g = "homref" -> 10 [] g = "het" -> 50 [] g = "homalt" -> 99
GtFILTER(g) == IF g = "homalt" THEN <<"q10", "s50">> ELSE <<>>
\* record.INFO, an ordered dict: key, and a list, bool or scalar value.
GtINFO(g) == CASE g = "uncalled" -> << [k |-> "DP", t |-> "int", v |-> 0] >>
               [] g = "homref" -> << >>
               [] g = "het" -> << [k |-> "DP", t |-> "int", v |-> 14],
                                  [k |-> "DB", t |-> "bool", v |-> TRUE],
                                  [k |-> "AC", t |-> "list", v |-> <<1>>] >>
               [] g = "homalt" -> << [k |-> "AF", t |-> "list", v |-> <<2, 0>>],
                                     [k |-> "H2", t |-> "bool", v |-> TRUE],
                                     [k |-> "SB", t |-> "str", v |-> "x"] >>
GtFORMAT(g) == IF g = "het" THEN "GT:DP:GQ" ELSE "GT:DP"
\* sample.data of the one sample: the fields FORMAT names, None where missing.
GtData(g) == CASE g = "uncalled" -> << [t |-> "none"], [t |-> "none"] >>
               [] g = "homref" -> << [t |-> "str", v |-> "0/0"], [t |-> "int", v |-> 7] >>
               [] g = "het" -> << [t |-> "str", v |-> "0/1"], [t |-> "int", v |-> 14],
                                  [t |-> "none"] >>
               [] g = "homalt" -> << [t |-> "str", v |-> "1/1"], [t |-> "int", v |-> 20] >>

\* A record as the reader of a single-sample VCF yields it, with the attributes
\* the loader reads: the fixed columns, the sample, and the derived properties
\* is_snp, is_indel, is_deletion, num_called, num_het, num_hom_alt.
Record(s, g) ==
    [ CHROM |-> "chr1", POS |-> ShapePOS(s) + GtPOS(g), ID |-> GtID(g),
      REF |-> ShapeREF(s), ALT |-> ShapeALT(s), QUAL |-> GtQUAL(g),
      FILTER |-> GtFILTER(g), INFO |-> GtINFO(g), FORMAT |-> GtFORMAT(g),
      samples |-> << [data |-> GtData(g)] >>,
      is_snp |-> s \in {"snp", "snp_multi"},
      is_indel |-> s \in {"ins", "del"},
      is_deletion |-> s = "del",
      num_called |-> IF g = "uncalled" THEN 0 ELSE 1,
      num_het |-> IF g = "het" THEN 1 ELSE 0,
      num_hom_alt |-> IF g = "homalt" THEN 1 ELSE 0 ]

\* ------------------------------------------------------ VCFLabelLoader
\* The outcome of a call: a value returned or an exception raised.
Ok(v) == [ok |-> TRUE, val |-> v]
Raise(type, msg) == [ok |-> FALSE, err |-> [type |-> type, msg |-> msg]]

\* str(x) of a value of a record.
Str(x) == CASE x.t = "int" -> ToString(x.v)
            [] x.t = "str" -> x.v

\* sep.join(strs)
RECURSIVE Join(_, _)
Join(sep, strs) ==
    IF strs = <<>> THEN ""
    ELSE IF Len(strs) = 1 THEN strs[1]
    ELSE strs[1] \o sep \o Join(sep, Tail(strs))

\* LastThree gone wrong, vcf_file[-2:]: C4 tells it from the code.
LastThree_LastTwo(s) == IF Len(s) <= 2 THEN s ELSE SubSeq(s, Len(s) - 1, Len(s))

\* vcf_file[-3:]
LastThree(s) == IF Len(s) <= 3 THEN s ELSE SubSeq(s, Len(s) - 2, Len(s))

\* GetVariantZygosity gone wrong, the genotype asked before is_fp: C2 tells
\* it from the code.
GetVariantZygosity_GenotypeFirst(rec, is_fp) ==
    IF rec.num_het > 0 THEN Ok("HETEROZYGOUS")
    ELSE IF rec.num_hom_alt > 0 THEN Ok("HOMOZYGOUS")
    ELSE IF is_fp THEN Ok("NO_VARIANT")
    ELSE Raise("ValueError", "Unexpected variant zygosity - " \o ToString(rec.POS))

\* GetVariantZygosity gone wrong, hom-alt asked before het: C9 tells it from
\* the code.
GetVariantZygosity_HomFirst(rec, is_fp) ==
    IF is_fp THEN Ok("NO_VARIANT")
    ELSE IF rec.num_hom_alt > 0 THEN Ok("HOMOZYGOUS")
    ELSE IF rec.num_het > 0 THEN Ok("HETEROZYGOUS")
    ELSE Raise("ValueError", "Unexpected variant zygosity - " \o ToString(rec.POS))

GetVariantZygosity(rec, is_fp) ==
    IF is_fp THEN Ok("NO_VARIANT")
    ELSE IF rec.num_het > 0 THEN Ok("HETEROZYGOUS")
    ELSE IF rec.num_hom_alt > 0 THEN Ok("HOMOZYGOUS")
    ELSE Raise("ValueError", "Unexpected variant zygosity - " \o ToString(rec.POS))

\* (The messages name the record by its POS.)
GetVariantType(rec) ==
    IF rec.is_snp THEN Ok("SNP")
    ELSE IF rec.is_indel THEN (IF rec.is_deletion THEN Ok("DELETION") ELSE Ok("INSERTION"))
    ELSE Raise("ValueError", "Unexpected variant type - " \o ToString(rec.POS))

\* InfoEntry gone wrong, a flag rendered as key=True: C3 tells it from the
\* code.
InfoEntry_BoolAsValue(e) ==
    IF e.t = "list" THEN e.k \o "=" \o Join(",", [i \in DOMAIN e.v |-> ToString(e.v[i])])
    ELSE IF e.t = "bool" THEN e.k \o "=True"
    ELSE e.k \o "=" \o Str(e)

InfoEntry(e) ==
    IF e.t = "list" THEN e.k \o "=" \o Join(",", [i \in DOMAIN e.v |-> ToString(e.v[i])])
    ELSE IF e.t = "bool" THEN e.k
    ELSE e.k \o "=" \o Str(e)

GetRecordInfo(info_dict) == Join(";", [i \in DOMAIN info_dict |-> InfoEntry(info_dict[i])])

SampleField(x) == IF x.t # "none" THEN Str(x) ELSE "."

SampleStrings(rec) ==
    [i \in DOMAIN rec.samples |->
        Join(":", [j \in DOMAIN rec.samples[i].data |-> SampleField(rec.samples[i].data[j])])]

Variant(rec, alt, var_zyg, var_type, vcf_file, bam) ==
    [ chrom |-> rec.CHROM, pos |-> rec.POS, id |-> rec.ID, ref |-> rec.REF,
      allele |-> alt.sequence, quality |-> rec.QUAL, filter |-> rec.FILTER,
      info |-> GetRecordInfo(rec.INFO), format |-> rec.FORMAT,
      samples |-> SampleStrings(rec),
      zygosity |-> var_zyg, type |-> var_type, vcf |-> vcf_file, bam |-> bam ]

\* The generator, run to its end: the Variants it yields, or the exception its
\* first step raises.
CreateVariantTupleFromRecord(rec, vcf_file, bam, is_fp) ==
    LET zyg == GetVariantZygosity(rec, is_fp)
        typ == GetVariantType(rec)
    IN  IF ~zyg.ok THEN zyg
        ELSE IF ~typ.ok THEN typ
        ELSE Ok([i \in DOMAIN rec.ALT |->
                    Variant(rec, rec.ALT[i], zyg.val, typ.val, vcf_file, bam)])

\* The three filters of the record loop of _parse_vcf; the warning of the
\* first one that the record fails, "" when it passes them all.
\* NotSnpFilter gone wrong, the filter dropped: C10 tells it from the code.
NotSnpFilter_Off(rec) == FALSE
\* MultiAlleleFilter gone wrong, two ALT alleles let through: C1 tells it
\* from the code.
MultiAlleleFilter_MoreThanTwo(rec) == Len(rec.ALT) > 2

NotSnpFilter(rec) == ~rec.is_snp
NotCalledFilter(rec, n) == rec.num_called < n
MultiAlleleFilter(rec) == Len(rec.ALT) > 1

FilterRecord(rec, n) ==
    IF NotSnpFilter(rec) THEN "not an SNP record"
    ELSE IF NotCalledFilter(rec, n) THEN "no samples in this record are called"
    ELSE IF MultiAlleleFilter(rec) THEN "multiallele recrods are not supported"
    ELSE ""

\* ParseRecord gone wrong, the Variants put in front of the labels: C7 tells
\* it from the code.
ParseRecord_Prepends(rec, n, e, ls) ==
    IF FilterRecord(rec, n) # "" THEN Ok(ls)
    ELSE LET vs == CreateVariantTupleFromRecord(rec, e.vcf, e.bam, e.is_fp.v)
         IN  IF vs.ok THEN Ok(vs.val \o ls) ELSE vs

\* One iteration of the record loop: the labels after it, or the exception.
ParseRecord(rec, n, e, ls) ==
    IF FilterRecord(rec, n) # "" THEN Ok(ls)
    ELSE LET vs == CreateVariantTupleFromRecord(rec, e.vcf, e.bam, e.is_fp.v)
         IN  IF vs.ok THEN Ok(ls \o vs.val) ELSE vs

\* OpenVcf gone wrong, a VCF without samples accepted: C5 tells it from the
\* code.
OpenVcf_AtMostOne(e, n) ==
    IF e.vcf = None \/ e.bam = None \/ ~IsBool(e.is_fp) THEN Raise("AssertionError", "")
    ELSE IF LastThree(e.vcf) # ".gz"
         THEN Raise("AssertionError", "VCF file needs to be compressed and indexed")
    ELSE IF n > 1
         THEN Raise("RuntimeError",
                    "Input vcf file " \o e.vcf \o " must only contain a single sample")
    ELSE Ok(OpenReader(n))

\* __init__ takes the next element of vcf_bam_list and enters _parse_vcf:
\* the two assertions, the reader, the single-sample check.
OpenVcf(e, n) ==
    IF e.vcf = None \/ e.bam = None \/ ~IsBool(e.is_fp) THEN Raise("AssertionError", "")
    ELSE IF LastThree(e.vcf) # ".gz"
         THEN Raise("AssertionError", "VCF file needs to be compressed and indexed")
    ELSE IF n # 1
         THEN Raise("RuntimeError",
                    "Input vcf file " \o e.vcf \o " must only contain a single sample")
    ELSE Ok(OpenReader(n))

\* A record of a reader of n samples that none of the three filters of
\* _parse_vcf skips (history).
PassesAllFilters(r, n) == r.is_snp /\ ~(r.num_called < n) /\ ~(Len(r.ALT) > 1)

Init ==
    /\ pc = "loop"
    /\ ntriples = 0
    /\ elem = NoElem
    /\ reader = NoReader
    /\ record = NoRecord
    /\ nread = 0
    /\ nread_elem = 0
    /\ labels = <<>>
    /\ emitted_fp = <<>>
    /\ passed = <<>>
    /\ error = NoError
    /\ iters = <<>>
    /\ result = NoResult
    /\ base_pileup = ""
    /\ tokens = <<>>
    /\ fi_out = NoResult

NextElem(t, n) ==
    /\ pc = "loop"
    /\ ntriples < MaxTriples
    /\ ntriples' = ntriples + 1
    /\ elem' = Triples[t]
    /\ record' = NoRecord
    /\ nread_elem' = 0
    /\ LET r == OpenVcf(Triples[t], n)
       IN  IF r.ok
           THEN /\ pc' = "parse"
                /\ reader' = r.val
                /\ error' = error
           ELSE /\ pc' = "failed"
                /\ reader' = IF r.err.type = "RuntimeError" THEN OpenReader(n) ELSE NoReader
                /\ error' = r.err
    /\ UNCHANGED <<nread, labels, emitted_fp, passed, iters, result>>
    /\ UNCHANGED fi_vars

ReadRecord(s, g) ==
    /\ pc = "parse"
    /\ nread < MaxReads
    /\ nread' = nread + 1
    /\ nread_elem' = nread_elem + 1
    /\ record' = Record(s, g)
    /\ passed' = IF PassesAllFilters(Record(s, g), reader.samples)
                 THEN Append(passed, <<elem.vcf, Record(s, g).POS>>)
                 ELSE passed
    /\ LET r == ParseRecord(Record(s, g), reader.samples, elem, labels)
       IN  IF r.ok
           THEN /\ labels' = r.val
                /\ emitted_fp' = emitted_fp \o [i \in 1..(Len(r.val) - Len(labels)) |-> elem.is_fp.v]
                /\ UNCHANGED <<pc, error>>
           ELSE /\ pc' = "failed"
                /\ error' = r.err
                /\ UNCHANGED <<labels, emitted_fp>>
    /\ UNCHANGED <<ntriples, elem, reader, iters, result>>
    /\ UNCHANGED fi_vars

\* The reader is exhausted: _parse_vcf returns to the loop of __init__.
EndOfFile ==
    /\ pc = "parse"
    /\ pc' = "loop"
    /\ record' = NoRecord
    /\ UNCHANGED <<ntriples, elem, reader, nread, nread_elem, labels, emitted_fp, passed,
                   error, iters, result>>
    /\ UNCHANGED fi_vars

\* vcf_bam_list is exhausted: __init__ returns the loader.
EndOfList ==
    /\ pc = "loop"
    /\ pc' = "ready"
    /\ UNCHANGED <<ntriples, elem, reader, record, nread, nread_elem, labels, emitted_fp, passed,
                   error, iters, result>>
    /\ UNCHANGED fi_vars

\* -------------------------------------------- BaseLabelLoader, the iterator
LoaderLen == Len(labels)
GetItem(idx) == labels[idx + 1]

\* LabelLoaderIterator(label_loader)
NewIterator == [index |-> 0]

Iter ==
    /\ pc = "ready"
    /\ Len(iters) < MaxIters
    /\ iters' = Append(iters, NewIterator)
    /\ result' = NoResult
    /\ UNCHANGED <<pc, ntriples, elem, reader, record, nread, nread_elem, labels, emitted_fp,
                   passed, error>>
    /\ UNCHANGED fi_vars

\* IteratorNext gone wrong, an exhausted iterator starting over: C6 tells it
\* from the code.
IteratorNext_Restarts(idx) ==
    IF idx < LoaderLen
    THEN [kind |-> "value", value |-> GetItem(idx), index |-> idx + 1]
    ELSE [kind |-> "StopIteration", index |-> 0]

\* __next__ of an iterator at index idx: what it returns and its index after.
IteratorNext(idx) ==
    IF idx < LoaderLen
    THEN [kind |-> "value", value |-> GetItem(idx), index |-> idx + 1]
    ELSE [kind |-> "StopIteration", index |-> idx]

NextCall(i) ==
    /\ pc = "ready"
    /\ i \in DOMAIN iters
    /\ LET r == IteratorNext(iters[i].index)
       IN  /\ iters' = [iters EXCEPT ![i] = [index |-> r.index]]
           /\ result' = IF r.kind = "value" THEN [kind |-> "value", value |-> r.value]
                        ELSE [kind |-> "StopIteration"]
    /\ UNCHANGED <<pc, ntriples, elem, reader, record, nread, nread_elem, labels, emitted_fp,
                   passed, error>>
    /\ UNCHANGED fi_vars

Next ==
    \/ \E t \in DOMAIN Triples, n \in 0..MaxSamples : NextElem(t, n)
    \/ \E s \in Shapes, g \in Gts : ReadRecord(s, g)
    \/ EndOfFile
    \/ EndOfList
    \/ Iter
    \/ \E i \in 1..MaxIters : NextCall(i)

Spec == Init /\ [][Next]_vars

\* ------------------------------------------------------- find_insertions
\* The tokens of the pileup column grammar: a base call or sentinel, an
\* insertion +<N><seq>, a deletion -<N><seq>.
Base(c) == [kind |-> "base", seq |-> c]
Ins(q) == [kind |-> "ins", seq |-> q]
Del(q) == [kind |-> "del", seq |-> q]

TokenSet ==
    { Base("A"), Base("g"), Base("*"), Base("#"),
      Ins("T"), Ins("ga"), Ins("ACGTACGTACGT"),
      Del("N"), Del("ctagctagcta") }

TokenText(t) ==
    CASE t.kind = "base" -> t.seq
      [] t.kind = "ins" -> "+" \o ToString(Len(t.seq)) \o t.seq
      [] t.kind = "del" -> "-" \o ToString(Len(t.seq)) \o t.seq

\* The column string a token sequence writes.
PileupText(ts) == Join("", [i \in DOMAIN ts |-> TokenText(ts[i])])

\* An indel token follows a base call: a column starts with a base call.
TokenSeqs(n) ==
    UNION { { ts \in [1..k -> TokenSet] : k > 0 => ts[1].kind = "base" } : k \in 0..n }

\* The columns of test_find_insertion.
Example1 ==
    << Base("A"), Ins("T"), Base("a"), Base("*"), Ins("T"), Base("A"), Base("a"),
       Ins("G"), Base("a") >>
Example2 ==
    << Base("G"), Ins("C"), Base("G"), Ins("C"), Base("G"), Ins("C"), Base("G"), Base("G"),
       Base("G"), Del("N"), Base("T"), Base("a"), Base("g"), Base("g"), Ins("ga"),
       Base("g"), Del("n"), Base("g"), Del("n"), Base("g"), Base("g"), Base("G"),
       Base("g"), Base("g"), Base("G"), Base("G"), Base("#") >>

CharAt(s, i) == SubSeq(s, i, i)
Digits == <<"0", "1", "2", "3", "4", "5", "6", "7", "8", "9">>
IsDigit(c) == \E d \in DOMAIN Digits : Digits[d] = c
DigitValue(c) == (CHOOSE d \in DOMAIN Digits : Digits[d] = c) - 1

\* ReadCount gone wrong, one digit read: C8 tells it from the tokenizer.
ReadCount_OneDigit(s, i, count) ==
    IF i <= Len(s) /\ IsDigit(CharAt(s, i))
    THEN [count |-> DigitValue(CharAt(s, i)), idx |-> i + 1]
    ELSE [count |-> count, idx |-> i]

\* The decimal run length that starts at index i: its value, and the index
\* after its last digit.
RECURSIVE ReadCount(_, _, _)
ReadCount(s, i, count) ==
    IF i <= Len(s) /\ IsDigit(CharAt(s, i))
    THEN ReadCount(s, i + 1, count * 10 + DigitValue(CharAt(s, i)))
    ELSE [count |-> count, idx |-> i]

\* Whether the insertion whose "+" is at index i follows the deletion sentinel.
NextToDel(s, i) == i > 1 /\ CharAt(s, i - 1) = "*"

\* The scan from index i on, with the insertions and flags found so far.
RECURSIVE ScanPileup(_, _, _, _)
ScanPileup(s, i, insertions, next_to_del) ==
    IF i > Len(s) THEN <<insertions, next_to_del>>
    ELSE IF CharAt(s, i) = "+"
    THEN LET n == ReadCount(s, i + 1, 0)
         IN  ScanPileup(s, n.idx + n.count,
                        Append(insertions, SubSeq(s, n.idx, n.idx + n.count - 1)),
                        Append(next_to_del, NextToDel(s, i)))
    ELSE IF CharAt(s, i) = "-"
    THEN LET n == ReadCount(s, i + 1, 0)
         IN  ScanPileup(s, n.idx + n.count, insertions, next_to_del)
    ELSE ScanPileup(s, i + 1, insertions, next_to_del)

find_insertions(s) == ScanPileup(s, 1, <<>>, <<>>)

LoaderIdle ==
    /\ pc = "loop"
    /\ ntriples = 0
    /\ elem = NoElem
    /\ reader = NoReader
    /\ record = NoRecord
    /\ nread = 0
    /\ nread_elem = 0
    /\ labels = <<>>
    /\ emitted_fp = <<>>
    /\ passed = <<>>
    /\ error = NoError
    /\ iters = <<>>
    /\ result = NoResult

InitFI ==
    /\ LoaderIdle
    /\ tokens \in TokenSeqs(MaxTokens) \cup {Example1, Example2}
    /\ base_pileup = PileupText(tokens)
    /\ fi_out = NoResult

FindInsertions ==
    /\ fi_out = NoResult
    /\ fi_out' = [kind |-> "value", value |-> find_insertions(base_pileup)]
    /\ UNCHANGED <<base_pileup, tokens>>
    /\ UNCHANGED loader_vars

NextFI == FindInsertions

SpecFI == InitFI /\ [][NextFI]_vars

\* ======================================================== the properties
\* A step of the record loop of _parse_vcf.
ReadStep == nread' = nread + 1

\* The records the claims speak of as passing all three filters: a SNP
\* record of a single-sample file, its genotype called, with exactly one ALT.
ClaimedPassing(r) == r.is_snp /\ r.num_called >= 1 /\ Len(r.ALT) = 1

\* The step appends exactly one Variant to the labels.
AppendsOne == Len(labels') = Len(labels) + 1 /\ SubSeq(labels', 1, Len(labels)) = labels
LastLabel == labels[Len(labels)]

\* Once an exception has left the constructor nothing more is processed.
FailedIsFinal ==
    pc = "failed" =>
        /\ pc' = "failed" /\ ntriples' = ntriples /\ elem' = elem /\ nread' = nread
        /\ labels' = labels /\ error' = error /\ iters' = iters /\ result' = result

\* C1: a record with more than one ALT allele, whatever its genotype and the
\* triple's is_fp, emits no Variant: the step that reads it leaves the labels,
\* the control state and the error as they were.
C1_MultiAlleleEmitsNothing ==
    [][ (ReadStep /\ Len(record'.ALT) > 1)
            => (labels' = labels /\ emitted_fp' = emitted_fp /\ pc' = pc /\ error' = error)
      ]_vars

\* A multi-allelic, called, homozygous-reference SNP record was read from a
\* true-positive file after a Variant had been emitted, and the load goes on.
C1_Witness ==
    /\ pc = "parse" /\ record # NoRecord /\ ~elem.is_fp.v
    /\ record.is_snp /\ Len(record.ALT) > 1 /\ record.num_called = 1
    /\ record.num_het = 0 /\ record.num_hom_alt = 0
    /\ Len(labels) > 0

\* C2: a Variant has zygosity NO_VARIANT exactly when the triple that emitted
\* it has is_fp = true, and an is_fp triple never raises the zygosity error.
C2_FalsePositiveForcesNoVariant ==
    /\ Len(emitted_fp) = Len(labels)
    /\ \A i \in DOMAIN labels : (labels[i].zygosity = "NO_VARIANT") <=> emitted_fp[i]
    /\ error.type = "ValueError" => ~elem.is_fp.v

\* A false-positive triple emitted a Variant for a homozygous-reference record
\* (no het call, no hom-alt call), beside a Variant of a true-positive triple.
C2_Witness ==
    \E i, j \in DOMAIN labels :
        /\ emitted_fp[i] /\ labels[i].pos = ShapePOS("snp") + GtPOS("homref")
        /\ labels[i].zygosity = "NO_VARIANT"
        /\ ~emitted_fp[j]

\* The text of the INFO column and of the sample column of the single-ALT SNP
\* records, as the VCF file spells them.
C3_InfoText(r) ==
    CASE r.POS = ShapePOS("snp") + GtPOS("homref") -> ""
      [] r.POS = ShapePOS("snp") + GtPOS("het") -> "DP=14;DB;AC=1"
      [] r.POS = ShapePOS("snp") + GtPOS("homalt") -> "AF=2,0;H2;SB=x"
C3_SampleText(r) ==
    CASE r.POS = ShapePOS("snp") + GtPOS("homref") -> <<"0/0:7">>
      [] r.POS = ShapePOS("snp") + GtPOS("het") -> <<"0/1:14:.">>
      [] r.POS = ShapePOS("snp") + GtPOS("homalt") -> <<"1/1:20">>

C3_Echoes(v, r, e) ==
    /\ v.chrom = r.CHROM /\ v.pos = r.POS /\ v.id = r.ID /\ v.ref = r.REF
    /\ v.allele = r.ALT[1].sequence /\ v.quality = r.QUAL /\ v.filter = r.FILTER
    /\ v.info = C3_InfoText(r) /\ v.format = r.FORMAT /\ v.samples = C3_SampleText(r)
    /\ v.vcf = e.vcf /\ v.bam = e.bam

\* C3 as claimed: every record that passes the three filters emits exactly
\* one Variant, which echoes the record and carries the triple's paths.
C3_Original ==
    [][ (ReadStep /\ ClaimedPassing(record'))
            => (AppendsOne /\ C3_Echoes(labels'[Len(labels')], record', elem))
      ]_vars

\* C3 (amended): a record that passes the three filters emits exactly one
\* Variant, which echoes the record and carries the triple's paths, when the
\* triple is a false-positive one or the record has a heterozygous or a
\* homozygous-alt call; with neither, in a true-positive triple, the record
\* emits nothing and the load ends with the zygosity ValueError.
C3_PassingRecordEmitsOneEcho ==
    [][ (ReadStep /\ ClaimedPassing(record'))
            => IF elem.is_fp.v \/ record'.num_het > 0 \/ record'.num_hom_alt > 0
               THEN AppendsOne /\ C3_Echoes(labels'[Len(labels')], record', elem)
               ELSE labels' = labels /\ pc' = "failed" /\ error'.type = "ValueError"
      ]_vars

\* The heterozygous SNP record was read and its Variant is the last label,
\* with the flattened INFO and sample text.
C3_Witness ==
    /\ pc = "parse" /\ record # NoRecord /\ ClaimedPassing(record) /\ record.num_het = 1
    /\ Len(labels) > 0
    /\ LastLabel.pos = record.POS /\ LastLabel.info = "DP=14;DB;AC=1"
    /\ LastLabel.samples = <<"0/1:14:.">> /\ LastLabel.allele = "G"
    /\ LastLabel.vcf = elem.vcf

\* The path carries the compressed-and-indexed extension.
C4_HasGz(path) == Len(path) >= 3 /\ SubSeq(path, Len(path) - 2, Len(path)) = ".gz"
C4_GzError ==
    error.type = "AssertionError" /\ error.msg = "VCF file needs to be compressed and indexed"

\* C4 as claimed: when the extension error is raised no record of any VCF of
\* the list has been read or turned into a Variant.
C4_Original == C4_GzError => (nread = 0 /\ labels = <<>>)

\* C4 (amended): the extension error is raised when the constructor reaches
\* the offending triple, before that VCF is opened and before any of its
\* records is read or turned into a Variant; a reader is only ever opened on
\* a path that ends in .gz.  (The triples before it have been parsed.)
C4_GzCheckedBeforeOwnParse ==
    /\ C4_GzError =>
          /\ pc = "failed" /\ ~C4_HasGz(elem.vcf)
          /\ reader = NoReader /\ nread_elem = 0 /\ record = NoRecord
          /\ \A i \in DOMAIN labels : labels[i].vcf # elem.vcf
    /\ reader.open => C4_HasGz(elem.vcf)
    /\ (pc = "failed" /\ error.type = "AssertionError"
           /\ elem.vcf # None /\ elem.bam # None /\ elem.is_fp.t = "bool")
          => C4_GzError

\* The extension error was raised after records of an earlier triple had been
\* read and turned into Variants.
C4_Witness == C4_GzError /\ nread > 0 /\ Len(labels) > 0 /\ ntriples = 2

C5_Inv ==
    /\ (reader.open /\ reader.samples # 1) =>
          /\ pc = "failed" /\ error.type = "RuntimeError"
          /\ error.msg = "Input vcf file " \o elem.vcf \o " must only contain a single sample"
          /\ nread_elem = 0 /\ record = NoRecord
    /\ error.type = "RuntimeError" => (reader.open /\ reader.samples # 1)
    /\ pc = "failed" => (iters = <<>> /\ result = NoResult)
    /\ pc = "ready" => error = NoError

\* C5: a VCF with zero or several samples makes the constructor fail with a
\* RuntimeError naming the file, before any record of it is read; after the
\* failure no later triple is processed and no loader exists to iterate.
C5_SampleCountIsFatal == []C5_Inv /\ [][FailedIsFinal]_vars

\* A VCF without samples failed the load after an earlier triple had emitted.
C5_Witness ==
    /\ pc = "failed" /\ reader.open /\ reader.samples = 0
    /\ error.type = "RuntimeError" /\ Len(labels) > 0

C6_NextReturns(i) ==
    /\ IF iters[i].index < Len(labels)
       THEN /\ result' = [kind |-> "value", value |-> labels[iters[i].index + 1]]
            /\ iters'[i].index = iters[i].index + 1
       ELSE /\ result' = [kind |-> "StopIteration"]
            /\ iters'[i] = iters[i]
    /\ \A j \in DOMAIN iters : j # i => iters'[j] = iters[j]
    /\ labels' = labels

C6_FreshStartsAtZero ==
    Len(iters') > Len(iters) =>
        /\ iters'[Len(iters')].index = 0
        /\ SubSeq(iters', 1, Len(iters)) = iters
        /\ labels' = labels

\* C6: an iterator returns loader[index] and advances by one while
\* index < len(loader), and raises StopIteration, staying where it is, on every
\* call from then on; a call moves no other iterator, a new iterator starts at
\* index 0 whatever the others did, and iteration never changes the labels.
C6_IterationForwardRestartable ==
    /\ [](\A i \in DOMAIN iters : iters[i].index \in 0..Len(labels))
    /\ [][(\A i \in DOMAIN iters : NextCall(i) => C6_NextReturns(i)) /\ C6_FreshStartsAtZero]_vars

\* The first iterator is exhausted and its last call raised StopIteration,
\* while the second has made one call, over a loader of two Variants or more.
C6_Witness ==
    /\ pc = "ready" /\ Len(labels) >= 2 /\ Len(iters) = 2
    /\ iters[1].index = Len(labels) /\ iters[2].index = 1
    /\ result.kind = "StopIteration"

C7_Step ==
    /\ ReadStep =>
          IF ~ClaimedPassing(record')
          THEN labels' = labels /\ pc' = "parse" /\ error' = error
          ELSE pc' = "parse" =>
                  /\ AppendsOne
                  /\ labels'[Len(labels')].pos = record'.POS
                  /\ labels'[Len(labels')].vcf = elem.vcf
                  /\ labels'[Len(labels')].bam = elem.bam
    /\ ~ReadStep => labels' = labels
\* The labels are the Variants of the passing records read so far, in the
\* order they were read.
C7_LabelsArePassed ==
    /\ Len(labels) = Len(passed)
    /\ \A i \in DOMAIN labels : <<labels[i].vcf, labels[i].pos>> = passed[i]

\* C7: while no exception has been raised, and so in the loader a successful
\* construction returns, the labels are the Variants of the records that pass
\* the three filters, in input-list order and then record order, and
\* len(loader) is the number of Variants emitted; a record that fails a
\* filter leaves the labels unchanged and the loop running, a record that
\* passes is appended at the end, and nothing else touches the labels.
C7_SkipsKeepOrder ==
    /\ [](pc # "failed" => (C7_LabelsArePassed /\ LoaderLen = Len(emitted_fp)))
    /\ [][C7_Step]_vars

\* Three records were read from two files, one was skipped, and the loader
\* holds the Variant of the first file before the Variant of the second.
C7_Witness ==
    /\ pc = "ready" /\ nread = 3 /\ ntriples = 2 /\ LoaderLen = 2
    /\ labels[1].vcf = "tp.vcf.gz" /\ labels[2].vcf = "fp.vcf.gz"
    /\ passed = << <<"tp.vcf.gz", labels[1].pos>>, <<"fp.vcf.gz", labels[2].pos>> >>

\* The index in ts of its k-th insertion token.
C8_InsIndex(ts, k) ==
    CHOOSE i \in DOMAIN ts :
        ts[i].kind = "ins" /\ Cardinality({j \in 1..i : ts[j].kind = "ins"}) = k

\* C8: find_insertions returns two sequences of equal length with one entry
\* per insertion token, in order: the token's sequence (its N characters),
\* and whether the token right before it is the sentinel "*"; deletion runs
\* contribute nothing.  It returns what test_find_insertion expects.
C8_FindInsertions ==
    fi_out.kind = "value" =>
        LET ins == fi_out.value[1]
            flags == fi_out.value[2]
            n == Cardinality({i \in DOMAIN tokens : tokens[i].kind = "ins"})
        IN  /\ Len(ins) = n /\ Len(flags) = n
            /\ \A k \in 1..n :
                  /\ ins[k] = tokens[C8_InsIndex(tokens, k)].seq
                  /\ flags[k] = (tokens[C8_InsIndex(tokens, k) - 1] = Base("*"))
            /\ base_pileup = "A+1Ta*+1TAa+1Ga"
                  => fi_out.value = << <<"T", "T", "G">>, <<FALSE, TRUE, FALSE>> >>
            /\ base_pileup = "G+1CG+1CG+1CGGG-1NTagg+2gag-1ng-1nggGggGG#"
                  => fi_out.value = << <<"C", "C", "C", "ga">>, <<FALSE, FALSE, FALSE, FALSE>> >>

\* A column with a 12-base insertion right after "*" and an 11-base deletion
\* was scanned.
C8_Witness ==
    /\ fi_out.kind = "value"
    /\ base_pileup = "*+12ACGTACGTACGT-11ctagctagcta"
    /\ fi_out.value = << <<"ACGTACGTACGT">>, <<TRUE>> >>

C9_Step ==
    (ReadStep /\ ClaimedPassing(record') /\ ~elem.is_fp.v) =>
        IF record'.num_het > 0
        THEN AppendsOne /\ labels'[Len(labels')].zygosity = "HETEROZYGOUS" /\ pc' = "parse"
        ELSE IF record'.num_hom_alt > 0
        THEN AppendsOne /\ labels'[Len(labels')].zygosity = "HOMOZYGOUS" /\ pc' = "parse"
        ELSE /\ labels' = labels /\ pc' = "failed"
             /\ error' = [type |-> "ValueError",
                          msg |-> "Unexpected variant zygosity - " \o ToString(record'.POS)]

C9_Classifier ==
    \A h, a \in 0..MaxSamples :
        LET z == GetVariantZygosity([num_het |-> h, num_hom_alt |-> a, POS |-> 0], FALSE)
        IN  IF h > 0 THEN z.ok /\ z.val = "HETEROZYGOUS"
            ELSE IF a > 0 THEN z.ok /\ z.val = "HOMOZYGOUS"
            ELSE ~z.ok /\ z.err.type = "ValueError"

\* C9: in a true-positive triple a record that passes the filters is
\* HETEROZYGOUS with a het call (also beside hom-alt calls), HOMOZYGOUS with
\* hom-alt calls only, and otherwise raises ValueError: nothing is emitted for
\* it, nothing is processed after it and no loader is returned.
C9_ZygosityOrFatal ==
    /\ [](C9_Classifier /\ (error.type = "ValueError" => (pc = "failed" /\ iters = <<>>)))
    /\ [][C9_Step /\ FailedIsFinal]_vars

\* The load failed on a homozygous-reference record after a heterozygous and
\* a homozygous Variant had been emitted.
C9_Witness ==
    /\ pc = "failed" /\ error.type = "ValueError" /\ record.num_called = 1
    /\ record.num_het = 0 /\ record.num_hom_alt = 0
    /\ Len(labels) = 2
    /\ labels[1].zygosity = "HETEROZYGOUS" /\ labels[2].zygosity = "HOMOZYGOUS"

\* C10: every Variant of the loader has type SNP; a record that is not a SNP
\* is skipped before the type classifier is asked, so no label is an INSERTION
\* or a DELETION and the load never ends with the variant-type error.
C10_OnlySnp ==
    /\ [](/\ \A i \in DOMAIN labels : labels[i].type = "SNP"
          /\ error.type = "ValueError"
                => SubSeq(error.msg, 1, 27) = "Unexpected variant zygosity")
    /\ [][(ReadStep /\ ~record'.is_snp)
              => (labels' = labels /\ pc' = pc /\ error' = error)]_vars

\* The record read last is a called heterozygous insertion, skipped, while
\* the labels already hold a SNP.
C10_Witness ==
    /\ pc = "parse" /\ record # NoRecord /\ record.is_indel /\ ~record.is_deletion
    /\ record.num_het = 1 /\ Len(labels) > 0

====
